---------------------------- MODULE Spec2Model ----------------------------
(***************************************************************************)
(* A model of five parts of the OneTrainer sources:                        *)
(*   - scripts/train.py: the entry point main()                            *)
(*   - modules/dataLoader/MgdsStableDiffusionVaeFineTuneVaeDataLoader.py:  *)
(*     the construction of the MGDS stage list                             *)
(*   - modules/modelSetup/StableDiffusionFineTuneSetup.py: device          *)
(*     placement and the training-step predictor                           *)
(*   - modules/modelSetup/StableDiffusionFineTuneSetup.py and              *)
(*     modules/model/StableDiffusionModel.py: setup_model                  *)
(*   - modules/modelSampler/SanaSampler.py: sample                         *)
(* Each part has its own specification (SpecTrain, SpecDataLoader,         *)
(* SpecPredict and SpecPlacement, SpecSetupModel, SpecSampler); the        *)
(* variables of the other parts stay at their initial values.              *)
(***************************************************************************)
EXTENDS Integers, Sequences, FiniteSets, TLC

VARIABLES
    \* ---- scripts/train.py, main() ----
    main_pc,        \* position in main(): the source line about to run
    main_args,      \* args = TrainArgs.parse_args()
    trainer,        \* the local `trainer`
    canceled,       \* the local `canceled`
    trainer_calls,  \* the trainer methods main has called, in order
    train_outcome,  \* how trainer.train() ended
    main_exc,       \* the exception that left main(), or None
    \* ---- dataLoader: create_dataset() ----
    dl_pc,          \* position in create_dataset(): the source line about to run
    dl_args,        \* the flags of args that create_dataset reads
    dl_locals,      \* the locals enumerate_input .. debug_modules
    ds,             \* the MGDS dataset: its definition and flattened modules
    \* ---- modelSetup: StableDiffusionFineTuneSetup ----
    setup_debug_mode,  \* self.debug_mode of the setup object
    device,            \* the device each network of the model is on
    net_mode,          \* train()/eval() mode of each network
    grad_ckpt,         \* the networks with gradient checkpointing enabled
    xformers,          \* the networks with memory efficient attention enabled
    last_placement,    \* the last placement call made on the model
    rng_state,         \* the state of the process-global random generator
    global_step,       \* train_progress.global_step
    cfg,               \* model variant, batch shape and args of the run
    cur,               \* the last predict call: its inputs and what it did
    \* ---- modelSetup: setup_model on a StableDiffusionModel ----
    model,             \* the StableDiffusionModel: optimizer, state dict, flags
    setup_args,        \* the fields of args that setup_model reads
    setup_hist,        \* what the setup_model calls so far have done
    \* ---- modelSampler: SanaSampler.sample ----
    sample_pc,         \* position in sample/__sample_base: the line about to run
    sample_config,     \* sample_config and the scheduler's num_train_timesteps
    sample_device,     \* the device each network of the SanaModel is on
    sample_timesteps,  \* the local `timesteps` of __sample_base
    loop_i,            \* the loop index i of the denoising loop
    sample_invoked,    \* the network invocations of the run, in order
    progress,          \* the on_update_progress calls of the run, in order
    image_saved,       \* image.save(destination) has written the image
    on_sample_calls    \* the number of on_sample calls of the run

None == "None"

trainVars == <<main_pc, main_args, trainer, canceled, trainer_calls,
               train_outcome, main_exc>>

dataVars == <<dl_pc, dl_args, dl_locals, ds>>

setupVars == <<setup_debug_mode, device, net_mode, grad_ckpt, xformers,
               last_placement, rng_state, global_step, cfg, cur>>

modelVars == <<model, setup_args, setup_hist>>

samplerVars == <<sample_pc, sample_config, sample_device, sample_timesteps,
                 loop_i, sample_invoked, progress, image_saved,
                 on_sample_calls>>

vars == <<trainVars, dataVars, setupVars, modelVars, samplerVars>>

\* A part that is not running under the specification of another part.
TrainIdle ==
    /\ main_pc = "idle"
    /\ main_args = None
    /\ trainer = None
    /\ canceled = FALSE
    /\ trainer_calls = <<>>
    /\ train_outcome = None
    /\ main_exc = None

DataIdle ==
    /\ dl_pc = "idle"
    /\ dl_args = None
    /\ dl_locals = None
    /\ ds = None

SetupIdle ==
    /\ setup_debug_mode = FALSE
    /\ device = None
    /\ net_mode = None
    /\ grad_ckpt = {}
    /\ xformers = {}
    /\ last_placement = None
    /\ rng_state = 0
    /\ global_step = 0
    /\ cfg = None
    /\ cur = None

ModelIdle ==
    /\ model = None
    /\ setup_args = None
    /\ setup_hist = None

SamplerIdle ==
    /\ sample_pc = "idle"
    /\ sample_config = None
    /\ sample_device = None
    /\ sample_timesteps = <<>>
    /\ loop_i = 0
    /\ sample_invoked = <<>>
    /\ progress = <<>>
    /\ image_saved = FALSE
    /\ on_sample_calls = 0

-----------------------------------------------------------------------------
(***************************************************************************)
(* modules/dataLoader/MgdsStableDiffusionVaeFineTuneVaeDataLoader.py       *)
(*                                                                         *)
(* A pipeline module is a record of its MGDS class (type), the field names *)
(* it reads (its *_in_name / names / split_names / aggregate_names         *)
(* arguments) and the field names it writes (its *_out_name arguments, and *)
(* the names it passes on).  Modules that take a list of names keep it in  *)
(* `names`.                                                                *)
(***************************************************************************)

Range(seq) == {seq[i] : i \in 1..Len(seq)}

\* The fields every concept of the concept file carries.
ConceptMetadata == {"concept", "path", "name"}

CollectPaths(concept_in_name, path_in_name, name_in_name, path_out_name, concept_out_name) ==
    [type |-> "CollectPaths",
     reads |-> {concept_in_name, path_in_name, name_in_name},
     writes |-> {path_out_name, concept_out_name}]

ModifyPath(in_name, out_name) ==
    [type |-> "ModifyPath", reads |-> {in_name}, writes |-> {out_name}]

LoadImage(path_in_name, image_out_name) ==
    [type |-> "LoadImage", reads |-> {path_in_name}, writes |-> {image_out_name}]

RandomMaskRotateCrop(mask_name, additional_names) ==
    [type |-> "RandomMaskRotateCrop",
     reads |-> {mask_name} \cup Range(additional_names),
     writes |-> {mask_name} \cup Range(additional_names)]

CalcAspect(image_in_name, resolution_out_name) ==
    [type |-> "CalcAspect", reads |-> {image_in_name},
     writes |-> {resolution_out_name}]

AspectBucketing(resolution_in_name, scale_resolution_out_name, crop_resolution_out_name, possible_resolutions_out_name) ==
    [type |-> "AspectBucketing", reads |-> {resolution_in_name},
     writes |-> {scale_resolution_out_name, crop_resolution_out_name,
                 possible_resolutions_out_name}]

ScaleCropImage(image_in_name, scale_resolution_in_name, crop_resolution_in_name, image_out_name) ==
    [type |-> "ScaleCropImage",
     reads |-> {image_in_name, scale_resolution_in_name, crop_resolution_in_name},
     writes |-> {image_out_name}]

RandomFlip(names) ==
    [type |-> "RandomFlip", reads |-> Range(names), writes |-> Range(names),
     names |-> names]

EncodeVAE(in_name, out_name) ==
    [type |-> "EncodeVAE", reads |-> {in_name}, writes |-> {out_name}]

Downscale(in_name, out_name) ==
    [type |-> "Downscale", reads |-> {in_name}, writes |-> {out_name}]

DiskCache(split_names, aggregate_names) ==
    [type |-> "DiskCache",
     reads |-> Range(split_names) \cup Range(aggregate_names),
     writes |-> Range(split_names) \cup Range(aggregate_names),
     split_names |-> split_names, aggregate_names |-> aggregate_names]

SampleVAEDistribution(in_name, out_name) ==
    [type |-> "SampleVAEDistribution", reads |-> {in_name}, writes |-> {out_name}]

AspectBatchSorting(resolution_in_name, names) ==
    [type |-> "AspectBatchSorting",
     reads |-> {resolution_in_name} \cup Range(names),
     writes |-> Range(names), names |-> names]

OutputPipelineModule(names) ==
    [type |-> "OutputPipelineModule", reads |-> Range(names),
     writes |-> Range(names), names |-> names]

DecodeVAE(in_name, out_name) ==
    [type |-> "DecodeVAE", reads |-> {in_name}, writes |-> {out_name}]

SaveImage(image_in_name, original_path_in_name) ==
    [type |-> "SaveImage", reads |-> {image_in_name, original_path_in_name},
     writes |-> {}]

\* list.append under a condition: `if cond: modules.append(module)`
AppendIf(cond, list, module) == IF cond THEN Append(list, module) ELSE list

\* __enumerate_input_modules(args)
enumerate_input_modules(args) ==
    LET collect_paths == CollectPaths("concept", "path", "name", "image_path",
                                      "concept")
        mask_path == ModifyPath("image_path", "mask_path")
    IN  AppendIf(args.masked_training, <<collect_paths>>, mask_path)

\* __load_input_modules(args)
load_input_modules(args) ==
    LET load_image == LoadImage("image_path", "image")
        load_mask == LoadImage("mask_path", "mask")
    IN  AppendIf(args.masked_training, <<load_image>>, load_mask)

\* __mask_augmentation_modules(args)
mask_augmentation_modules(args) ==
    LET inputs == <<"image">>
        random_mask_rotate_crop == RandomMaskRotateCrop("mask", inputs)
    IN  AppendIf(args.masked_training /\ args.random_rotate_and_crop, <<>>,
                 random_mask_rotate_crop)

\* __aspect_bucketing_in(args)
aspect_bucketing_in_modules(args) ==
    LET calc_aspect == CalcAspect("image", "original_resolution")
        aspect_bucketing == AspectBucketing("original_resolution",
                                "scale_resolution", "crop_resolution",
                                "possible_resolutions")
    IN  IF args.aspect_ratio_bucketing
        THEN <<calc_aspect, aspect_bucketing>>
        ELSE <<>>

\* __crop_modules(args)
crop_modules_of(args) ==
    LET scale_crop_image == ScaleCropImage("image", "scale_resolution",
                                           "crop_resolution", "image")
        scale_crop_mask == ScaleCropImage("mask", "scale_resolution",
                                          "crop_resolution", "mask")
    IN  AppendIf(args.masked_training, <<scale_crop_image>>, scale_crop_mask)

\* __augmentation_modules(args)
augmentation_modules_of(args) ==
    LET inputs == AppendIf(args.masked_training, <<"image">>, "mask")
        random_flip == RandomFlip(inputs)
    IN  <<random_flip>>

\* __preparation_modules(args, model)
preparation_modules_of(args) ==
    LET image == EncodeVAE("image", "latent_image_distribution")
        mask == Downscale("mask", "latent_mask")
    IN  AppendIf(args.masked_training, <<image>>, mask)

\* __cache_modules caching the sampled latent_image next to its distribution
\* (a faulty variant).
cache_modules_with_sample(args) ==
    LET split_names == AppendIf(args.masked_training,
                                <<"image", "latent_image_distribution",
                                  "latent_image">>,
                                "latent_mask")
        aggregate_names == <<"crop_resolution", "image_path">>
        disk_cache == DiskCache(split_names, aggregate_names)
    IN  AppendIf(args.latent_caching, <<>>, disk_cache)

\* __cache_modules(args)
cache_modules_of(args) ==
    LET split_names == AppendIf(args.masked_training,
                                <<"image", "latent_image_distribution">>,
                                "latent_mask")
        aggregate_names == <<"crop_resolution", "image_path">>
        disk_cache == DiskCache(split_names, aggregate_names)
    IN  AppendIf(args.latent_caching, <<>>, disk_cache)

\* __output_modules with latent_mask appended whatever masked_training is
\* (a faulty variant).
output_modules_always_mask(args) ==
    LET output_names == <<"image", "latent_image", "image_path", "latent_mask">>
        image_sample == SampleVAEDistribution("latent_image_distribution",
                                              "latent_image")
        batch_sorting == AspectBatchSorting("crop_resolution", output_names)
        output == OutputPipelineModule(output_names)
    IN  <<image_sample, batch_sorting, output>>

\* __output_modules(args)
output_modules_of(args) ==
    LET output_names == AppendIf(args.masked_training,
                                 <<"image", "latent_image", "image_path">>,
                                 "latent_mask")
        image_sample == SampleVAEDistribution("latent_image_distribution",
                                              "latent_image")
        batch_sorting == AspectBatchSorting("crop_resolution", output_names)
        output == OutputPipelineModule(output_names)
    IN  <<image_sample, batch_sorting, output>>

\* create_dataset, lines 179-184: the debug modules
debug_modules_of ==
    <<DecodeVAE("latent_image", "decoded_image"),
      SaveImage("decoded_image", "image_path"),
      SaveImage("mask", "image_path")>>

\* The stage list with the mask augmentation moved behind the scale/crop
\* stage (a faulty variant).
StageNamesCropFirst ==
    <<"enumerate_input", "load_input", "aspect_bucketing_in", "crop_modules",
      "mask_augmentation", "augmentation_modules", "preparation_modules",
      "cache_modules", "output_modules">>

\* create_dataset, lines 194-206: the stage list handed to MGDS, in order;
\* a stage is a list of modules or None.
StageNames ==
    <<"enumerate_input", "load_input", "mask_augmentation",
      "aspect_bucketing_in", "crop_modules", "augmentation_modules",
      "preparation_modules", "cache_modules", "output_modules">>

Definition(locals, args) ==
    [i \in 1..(Len(StageNames) + 1) |->
        IF i <= Len(StageNames)
        THEN locals[StageNames[i]]
        ELSE IF args.debug_mode THEN locals["debug_modules"] ELSE None]

\* MGDS flattens the stage list in order and drops the None stages.
RECURSIVE Flatten(_)
Flatten(definition) ==
    IF definition = <<>>
    THEN <<>>
    ELSE LET head == Head(definition)
         IN  (IF head = None THEN <<>> ELSE head) \o Flatten(Tail(definition))

LocalNames == Range(StageNames) \cup {"debug_modules"}

DataArgs ==
    [masked_training : BOOLEAN, random_rotate_and_crop : BOOLEAN,
     aspect_ratio_bucketing : BOOLEAN, latent_caching : BOOLEAN,
     debug_mode : BOOLEAN]

\* create_dataset(args, model, concepts, train_progress) has been called.
InitData ==
    /\ dl_pc = "L168"
    /\ dl_args \in DataArgs
    /\ dl_locals = [n \in LocalNames |-> None]
    /\ ds = None
    /\ TrainIdle
    /\ SetupIdle
    /\ ModelIdle
    /\ SamplerIdle

\* One line `name = builder(args)` of create_dataset.
Build(line, next, name, modules) ==
    /\ dl_pc = line
    /\ dl_locals' = [dl_locals EXCEPT ![name] = modules]
    /\ dl_pc' = next
    /\ UNCHANGED <<dl_args, ds>>
    /\ UNCHANGED <<trainVars, setupVars, modelVars, samplerVars>>

BuildEnumerateInput ==
    Build("L168", "L169", "enumerate_input", enumerate_input_modules(dl_args))

BuildLoadInput ==
    Build("L169", "L170", "load_input", load_input_modules(dl_args))

BuildMaskAugmentation ==
    Build("L170", "L171", "mask_augmentation", mask_augmentation_modules(dl_args))

BuildAspectBucketingIn ==
    Build("L171", "L172", "aspect_bucketing_in", aspect_bucketing_in_modules(dl_args))

BuildCropModules ==
    Build("L172", "L173", "crop_modules", crop_modules_of(dl_args))

BuildAugmentationModules ==
    Build("L173", "L174", "augmentation_modules", augmentation_modules_of(dl_args))

BuildPreparationModules ==
    Build("L174", "L175", "preparation_modules", preparation_modules_of(dl_args))

BuildCacheModules ==
    Build("L175", "L176", "cache_modules", cache_modules_of(dl_args))

BuildOutputModules ==
    Build("L176", "L179", "output_modules", output_modules_of(dl_args))

BuildDebugModules ==
    Build("L179", "L188", "debug_modules", debug_modules_of)

\* lines 188-212: ds = MGDS(..., [stages], ...); return ds
CreateMGDS ==
    /\ dl_pc = "L188"
    /\ ds' = [definition |-> Definition(dl_locals, dl_args),
              modules |-> Flatten(Definition(dl_locals, dl_args))]
    /\ dl_pc' = "done"
    /\ UNCHANGED <<dl_args, dl_locals>>
    /\ UNCHANGED <<trainVars, setupVars, modelVars, samplerVars>>

NextData ==
    \/ BuildEnumerateInput
    \/ BuildLoadInput
    \/ BuildMaskAugmentation
    \/ BuildAspectBucketingIn
    \/ BuildCropModules
    \/ BuildAugmentationModules
    \/ BuildPreparationModules
    \/ BuildCacheModules
    \/ BuildOutputModules
    \/ BuildDebugModules
    \/ CreateMGDS

SpecDataLoader == InitData /\ [][NextData]_vars

-----------------------------------------------------------------------------
(***************************************************************************)
(* scripts/train.py                                                        *)
(***************************************************************************)

\* The members of TrainingMethod that main() matches on.
TrainingMethods == {"FINE_TUNE", "LORA", "EMBEDDING", "FINE_TUNE_VAE"}

\* What a call into the trainer can do besides returning: the user's
\* interruption, or a failure such as running out of device memory.
Exceptions == {"KeyboardInterrupt", "OutOfMemoryError", "RuntimeError"}

CallOutcomes == {"return"} \cup Exceptions

\* match args.training_method: every case constructs a FineTuneTrainer.
MatchTrainer(method) ==
    CASE method = "FINE_TUNE"     -> "FineTuneTrainer"
      [] method = "LORA"          -> "FineTuneTrainer"
      [] method = "EMBEDDING"     -> "FineTuneTrainer"
      [] method = "FINE_TUNE_VAE" -> "FineTuneTrainer"
      [] OTHER                    -> None

\* A bare `except:` around trainer.train() (a faulty variant of the except clause).
ExceptAnything(e) == TRUE

\* `except KeyboardInterrupt:` - the one exception the try block absorbs.
ExceptClause(e) == e = "KeyboardInterrupt"

\* The end-of-run save decided on `not canceled` alone (a faulty variant).
EndOnlyIfNotCanceled(c, a) == ~c

\* `if not canceled or args.backup_before_save:`
EndCondition(c, a) == ~c \/ a.backup_before_save

InitTrain ==
    /\ main_pc = "L12"
    /\ main_args = None
    /\ trainer = None
    /\ canceled = FALSE
    /\ trainer_calls = <<>>
    /\ train_outcome = None
    /\ main_exc = None
    /\ DataIdle
    /\ SetupIdle
    /\ ModelIdle
    /\ SamplerIdle

\* line 12: args = TrainArgs.parse_args()
ParseArgs ==
    /\ main_pc = "L12"
    /\ UNCHANGED <<dataVars, setupVars, modelVars, samplerVars>>
    /\ \E m \in TrainingMethods, b \in BOOLEAN :
          main_args' = [training_method |-> m, backup_before_save |-> b]
    /\ main_pc' = "L14"
    /\ UNCHANGED <<trainer, canceled, trainer_calls, train_outcome, main_exc>>

\* lines 14-23: trainer = None; match args.training_method
CreateTrainer ==
    /\ main_pc = "L14"
    /\ UNCHANGED <<dataVars, setupVars, modelVars, samplerVars>>
    /\ trainer' = MatchTrainer(main_args.training_method)
    /\ main_pc' = "L25"
    /\ UNCHANGED <<main_args, canceled, trainer_calls, train_outcome, main_exc>>

\* line 25: trainer.start(), outside any try block
StartTrainer ==
    /\ main_pc = "L25"
    /\ UNCHANGED <<dataVars, setupVars, modelVars, samplerVars>>
    /\ IF trainer = None
       THEN /\ main_exc' = "AttributeError"
            /\ main_pc' = "raised"
            /\ UNCHANGED trainer_calls
       ELSE /\ trainer_calls' = Append(trainer_calls, "start")
            /\ \E o \in CallOutcomes :
                  IF o = "return"
                  THEN main_pc' = "L27" /\ UNCHANGED main_exc
                  ELSE main_pc' = "raised" /\ main_exc' = o
    /\ UNCHANGED <<main_args, trainer, canceled, train_outcome>>

\* line 27: canceled = False
ClearCanceled ==
    /\ main_pc = "L27"
    /\ UNCHANGED <<dataVars, setupVars, modelVars, samplerVars>>
    /\ canceled' = FALSE
    /\ main_pc' = "L28"
    /\ UNCHANGED <<main_args, trainer, trainer_calls, train_outcome, main_exc>>

\* lines 28-31: try: trainer.train() except KeyboardInterrupt: canceled = True
TrainTrainer ==
    /\ main_pc = "L28"
    /\ UNCHANGED <<dataVars, setupVars, modelVars, samplerVars>>
    /\ trainer_calls' = Append(trainer_calls, "train")
    /\ \E o \in CallOutcomes :
          /\ train_outcome' = o
          /\ IF o = "return"
             THEN main_pc' = "L33" /\ UNCHANGED <<canceled, main_exc>>
             ELSE IF ExceptClause(o)
             THEN main_pc' = "L33" /\ canceled' = TRUE /\ UNCHANGED main_exc
             ELSE main_pc' = "raised" /\ main_exc' = o /\ UNCHANGED canceled
    /\ UNCHANGED <<main_args, trainer>>

\* line 33: if not canceled or args.backup_before_save:
CheckEnd ==
    /\ main_pc = "L33"
    /\ UNCHANGED <<dataVars, setupVars, modelVars, samplerVars>>
    /\ main_pc' = IF EndCondition(canceled, main_args) THEN "L34" ELSE "done"
    /\ UNCHANGED <<main_args, trainer, canceled, trainer_calls, train_outcome,
                   main_exc>>

\* line 34: trainer.end()
EndTrainer ==
    /\ main_pc = "L34"
    /\ UNCHANGED <<dataVars, setupVars, modelVars, samplerVars>>
    /\ trainer_calls' = Append(trainer_calls, "end")
    /\ \E o \in CallOutcomes :
          IF o = "return"
          THEN main_pc' = "done" /\ UNCHANGED main_exc
          ELSE main_pc' = "raised" /\ main_exc' = o
    /\ UNCHANGED <<main_args, trainer, canceled, train_outcome>>

NextTrain ==
    \/ ParseArgs
    \/ CreateTrainer
    \/ StartTrainer
    \/ ClearCanceled
    \/ TrainTrainer
    \/ CheckEnd
    \/ EndTrainer

SpecTrain == InitTrain /\ [][NextTrain]_vars

\* How often main has called trainer.<name>().
CallCount(name) ==
    Cardinality({i \in 1..Len(trainer_calls) : trainer_calls[i] = name})

-----------------------------------------------------------------------------
(***************************************************************************)
(* modules/modelSetup/StableDiffusionFineTuneSetup.py                      *)
(***************************************************************************)

MaxStep == 1            \* global_step ranges over 0..MaxStep
RngMod == 3             \* the global generator has the states 0..RngMod-1
StrengthDen == 2        \* max_noising_strength ranges over k/StrengthDen
MaxTrainTimesteps == 2  \* num_train_timesteps ranges over 1..MaxTrainTimesteps
MaxBatch == 2           \* batch sizes 1..MaxBatch
MaxChannels == 2        \* latent channel counts 1..MaxChannels
LatentSize == 1         \* height and width of the latents

Networks == {"text_encoder", "vae", "unet", "depth_estimator"}

\* The model variants: the capability flags of args.model_type.  A variant
\* takes no, a mask, a conditioning image or both inputs, or a depth input.
ModelTypes ==
    {t \in [has_mask_input : BOOLEAN, has_conditioning_image_input : BOOLEAN,
            has_depth_input : BOOLEAN] :
        t.has_depth_input =>
            (~t.has_mask_input /\ ~t.has_conditioning_image_input)}

\* Model variant, noise scheduler configuration, batch shape and the fields
\* of args that setup_train_device and predict read (args.debug_mode is
\* chosen per predict call).
Configs ==
    [model_type : ModelTypes,
     train_text_encoder : BOOLEAN,
     offset_noise_weight : {0, 1},
     strength_num : 0..StrengthDen,
     num_train_timesteps : 1..MaxTrainTimesteps,
     batch_size : 1..MaxBatch,
     latent_channels : 1..MaxChannels]

\* The configurations of the runs that exercise predict.
PredictConfigs == {c \in Configs : ~c.train_text_encoder}

\* The configurations of the runs that exercise the placement calls.
PlacementConfigs ==
    {c \in Configs :
        /\ c.offset_noise_weight = 0
        /\ c.strength_num = StrengthDen
        /\ c.num_train_timesteps = MaxTrainTimesteps
        /\ c.batch_size = 1
        /\ c.latent_channels = 1}

\* The model as loaded: the networks are on the temp device, the depth
\* estimator exists only for a depth variant.
LoadedDevices(c) ==
    [n \in Networks |->
        IF n = "depth_estimator" /\ ~c.model_type.has_depth_input
        THEN None ELSE "temp"]

\* module.to(target) on one network of the model
To(dev, n, target) == [dev EXCEPT ![n] = target]

\* setup_train_device, lines 77-81
TrainDevices(dev, debug_mode) ==
    LET d1 == To(dev, "text_encoder", "train")
        d2 == To(d1, "vae", IF debug_mode THEN "train" ELSE "temp")
        d3 == To(d2, "unet", "train")
    IN  IF d3["depth_estimator"] # None
        THEN To(d3, "depth_estimator", "temp") ELSE d3

\* setup_eval_device, lines 62-66
EvalDevices(dev) ==
    LET d1 == To(dev, "text_encoder", "train")
        d2 == To(d1, "vae", "train")
        d3 == To(d2, "unet", "train")
    IN  IF d3["depth_estimator"] # None
        THEN To(d3, "depth_estimator", "train") ELSE d3

\* .train() / .eval() on the text encoder, the VAE and the unet
SetModes(modes, m) ==
    [n \in Networks |-> IF n \in {"text_encoder", "vae", "unet"} THEN m ELSE modes[n]]

\* StableDiffusionFineTuneSetup(train_device, temp_device, debug_mode) around
\* a loaded model.
InitSetupObject(configs, debug_modes, rng_states) ==
    /\ cfg \in configs
    /\ setup_debug_mode \in debug_modes
    /\ device = LoadedDevices(cfg)
    /\ net_mode = [n \in Networks |-> "eval"]
    /\ grad_ckpt = {}
    /\ xformers = {}
    /\ last_placement = None
    /\ rng_state \in rng_states
    /\ global_step = 0
    /\ cur = [called |-> FALSE]

\* setup_eval_device(model)
SetupEvalDevice ==
    /\ device' = EvalDevices(device)
    /\ net_mode' = SetModes(net_mode, "eval")
    /\ last_placement' = "setup_eval_device"
    /\ UNCHANGED <<setup_debug_mode, grad_ckpt, xformers, rng_state,
                   global_step, cfg, cur>>
    /\ UNCHANGED <<trainVars, dataVars, modelVars, samplerVars>>

\* setup_train_device(model, args).  Enabling memory efficient attention is
\* tried when xformers is available and may fail on the VAE or on the unet;
\* the failure is printed and the method goes on.
SetupTrainDevice ==
    /\ device' = TrainDevices(device, setup_debug_mode)
    /\ \E enabled \in {{}, {"vae"}, {"vae", "unet"}} :
          xformers' = xformers \cup enabled
    /\ grad_ckpt' = grad_ckpt \cup {"unet"}
          \cup (IF cfg.train_text_encoder THEN {"text_encoder"} ELSE {})
    /\ net_mode' = SetModes(net_mode, "train")
    /\ last_placement' = "setup_train_device"
    /\ UNCHANGED <<setup_debug_mode, rng_state, global_step, cfg, cur>>
    /\ UNCHANGED <<trainVars, dataVars, modelVars, samplerVars>>

\* Some other code of the process draws from the global random generator.
OtherRandomDraw ==
    /\ rng_state' = (rng_state + 1) % RngMod
    /\ UNCHANGED <<setup_debug_mode, device, net_mode, grad_ckpt, xformers,
                   last_placement, global_step, cfg, cur>>
    /\ UNCHANGED <<trainVars, dataVars, modelVars, samplerVars>>

\* The trainer finishes a step: train_progress.global_step advances.
NextStep ==
    /\ global_step < MaxStep
    /\ global_step' = global_step + 1
    /\ UNCHANGED <<setup_debug_mode, device, net_mode, grad_ckpt, xformers,
                   last_placement, rng_state, cfg, cur>>
    /\ UNCHANGED <<trainVars, dataVars, modelVars, samplerVars>>

(***************************************************************************)
(* Tensors are records of a shape <<batch, channels, height, width>> and a *)
(* value: the expression that computed them.                               *)
(***************************************************************************)

\* A local name that no statement has assigned yet.
Unbound == [shape |-> <<>>, val |-> [op |-> "unbound"]]

\* batch[name]
BatchTensor(name, shape) == [shape |-> shape, val |-> [op |-> "batch", name |-> name]]

\* x * model.vae.scaling_factor
TimesScaling(x) == [shape |-> x.shape, val |-> [op |-> "times_scaling_factor", a |-> x.val]]

\* x / model.vae.scaling_factor
OverScaling(x) == [shape |-> x.shape, val |-> [op |-> "over_scaling_factor", a |-> x.val]]

\* torch.randn(shape, generator=generator): draw number `index` of a
\* generator seeded with `seed`.
Randn(seed, index, shape) ==
    [shape |-> shape, val |-> [op |-> "randn", seed |-> seed, index |-> index]]

\* a + (weight * b), b broadcast over height and width
AddWeighted(a, weight, b) ==
    [shape |-> a.shape,
     val |-> [op |-> "add_weighted", a |-> a.val, weight |-> weight, b |-> b.val]]

\* model.noise_scheduler.add_noise(original_samples, noise, timesteps)
AddNoise(original_samples, noise, timesteps) ==
    [shape |-> original_samples.shape,
     val |-> [op |-> "add_noise", a |-> original_samples.val, b |-> noise.val,
              t |-> timesteps]]

RECURSIVE SumChannels(_)
SumChannels(tensors) ==
    IF tensors = <<>> THEN 0 ELSE Head(tensors).shape[2] + SumChannels(Tail(tensors))

\* torch.concat(tensors, 1): the channels (axis 1) of the parts, in order
Concat1(tensors) ==
    [shape |-> [Head(tensors).shape EXCEPT ![2] = SumChannels(tensors)],
     val |-> [op |-> "concat", parts |-> [i \in 1..Len(tensors) |-> tensors[i].val]]]

\* model.unet(latent_input, timestep, text_encoder_output[, latent_depth]).sample
Unet(latent_input, timestep, text, depth, out_shape) ==
    [shape |-> out_shape,
     val |-> [op |-> "unet", x |-> latent_input.val, t |-> timestep,
              text |-> text.val, depth |-> depth.val]]

\* model.vae.decode(x).sample.clamp(-1, 1)
DecodeClamp(x) == [shape |-> x.shape, val |-> [op |-> "vae_decode_clamp", a |-> x.val]]

\* (noisy - predicted * sqrt(1 - alphas_cumprod[t])) / sqrt(alphas_cumprod[t])
PredictedImage(noisy, predicted, timestep) ==
    [shape |-> noisy.shape,
     val |-> [op |-> "ddpm_inversion", a |-> noisy.val, b |-> predicted.val,
              t |-> timestep]]

\* The batch the data loader hands to predict for a configuration.
BatchOf(c) ==
    LET b == c.batch_size
        ch == c.latent_channels
    IN  [latent_image |-> BatchTensor("latent_image", <<b, ch, LatentSize, LatentSize>>),
         latent_conditioning_image |->
             BatchTensor("latent_conditioning_image", <<b, ch, LatentSize, LatentSize>>),
         latent_mask |-> BatchTensor("latent_mask", <<b, 1, LatentSize, LatentSize>>),
         latent_depth |-> BatchTensor("latent_depth", <<b, 1, LatentSize, LatentSize>>),
         tokens |-> BatchTensor("tokens", <<b>>)]

\* args as predict reads it
ArgsOf(c, debug_mode) ==
    [model_type |-> c.model_type,
     offset_noise_weight |-> c.offset_noise_weight,
     strength_num |-> c.strength_num,
     debug_mode |-> debug_mode]

\* lines 134-139: the latent noise, drawn from the generator seeded with
\* train_progress.global_step (lines 131-132), and the number of draws made.
LatentNoise(args, shape, seed) ==
    IF args.offset_noise_weight > 0
    THEN LET normal_noise == Randn(seed, 0, shape)
             offset_noise == Randn(seed, 1, <<shape[1], shape[2], 1, 1>>)
         IN  [latent_noise |->
                  AddWeighted(normal_noise, args.offset_noise_weight, offset_noise),
              draws |-> 2]
    ELSE [latent_noise |-> Randn(seed, 0, shape), draws |-> 1]

\* The upper bound one too high (a faulty variant).
TimestepHighPlusOne(num_train_timesteps, args) ==
    ((num_train_timesteps * args.strength_num) \div StrengthDen) + 1

\* line 143: int(num_train_timesteps * args.max_noising_strength), with
\* max_noising_strength = strength_num / StrengthDen
TimestepHigh(num_train_timesteps, args) ==
    (num_train_timesteps * args.strength_num) \div StrengthDen

\* lines 141-146: torch.randint(low=0, high=high, size=(n,)) has no generator
\* argument: it draws n numbers from the process-global generator, and
\* raises for an empty range.
RandInt(rng, high, n) ==
    IF high <= 0
    THEN [error |-> "RuntimeError", values |-> <<>>, rng |-> rng]
    ELSE [error |-> None,
          values |-> [i \in 1..n |-> (rng + i - 1) % high],
          rng |-> (rng + n) % RngMod]

\* The concatenation without the mask (a faulty variant).
LatentInputWithoutMask(args, scaled_noisy_latent_image, batch, scaled_latent_conditioning_image) ==
    IF args.model_type.has_mask_input /\ args.model_type.has_conditioning_image_input
    THEN Concat1(<<scaled_noisy_latent_image, scaled_latent_conditioning_image>>)
    ELSE scaled_noisy_latent_image

\* lines 152-155: the input of the denoising network
LatentInput(args, scaled_noisy_latent_image, batch, scaled_latent_conditioning_image) ==
    IF args.model_type.has_mask_input /\ args.model_type.has_conditioning_image_input
    THEN Concat1(<<scaled_noisy_latent_image, batch.latent_mask,
                   scaled_latent_conditioning_image>>)
    ELSE scaled_noisy_latent_image

\* save_image writing every image under one file name (a faulty variant).
SavedUnderOneName(tensor, name, step) ==
    [name |-> "image", step |-> step, image |-> tensor.val]

\* save_image(tensor, directory, name, step)
Saved(tensor, name, step) == [name |-> name, step |-> step, image |-> tensor.val]

\* The debug block assigning latent_noise where the code assigns noise
\* (a faulty variant).
DebugBlockClobbering(env, args, step) ==
    [env EXCEPT !.latent_noise = DecodeClamp(OverScaling(env.latent_noise)),
                !.saved = <<Saved(DecodeClamp(OverScaling(env.latent_noise)),
                                  "1-noise", step)>>,
                !.decodes = 1]

\* lines 162-202: the debug block, run on the locals of predict.  It adds
\* the images it saves and counts the calls of model.vae.decode.
DebugBlock(env, args, step) ==
    LET noise == DecodeClamp(OverScaling(env.latent_noise))
        predicted_noise == DecodeClamp(OverScaling(env.predicted_latent_noise))
        noisy_latent_image == OverScaling(env.scaled_noisy_latent_image)
        noisy_image == DecodeClamp(noisy_latent_image)
        scaled_predicted_latent_image ==
            PredictedImage(env.scaled_noisy_latent_image,
                           env.predicted_latent_noise, env.timestep)
        predicted_latent_image == OverScaling(scaled_predicted_latent_image)
        predicted_image == DecodeClamp(predicted_latent_image)
        image == DecodeClamp(env.latent_image)
        conditioning_image == DecodeClamp(env.latent_conditioning_image)
        has_cond == args.model_type.has_conditioning_image_input
        first_five == <<Saved(noise, "1-noise", step),
                        Saved(predicted_noise, "2-predicted_noise", step),
                        Saved(noisy_image, "3-noisy_image", step),
                        Saved(predicted_image, "4-predicted_image", step),
                        Saved(image, "5-image", step)>>
    IN  [env EXCEPT
            !.noise = noise,
            !.predicted_noise = predicted_noise,
            !.noisy_latent_image = noisy_latent_image,
            !.noisy_image = noisy_image,
            !.scaled_predicted_latent_image = scaled_predicted_latent_image,
            !.predicted_latent_image = predicted_latent_image,
            !.predicted_image = predicted_image,
            !.image = image,
            !.conditioning_image = IF has_cond THEN conditioning_image ELSE @,
            !.saved = IF has_cond
                      THEN Append(first_five,
                                  Saved(conditioning_image, "6-conditioning_image", step))
                      ELSE first_five,
            !.decodes = IF has_cond THEN 6 ELSE 5]

\* The return value of a predict call that raised.
NoReturn == <<>>

\* predict(model, batch, args, train_progress), run with the global
\* generator in state rng and the networks placed as in dev.  The result
\* holds the return value, what the call drew and invoked, what it saved
\* and the state it leaves the global generator in.
Predict(num_train_timesteps, batch, args, step, rng, dev) ==
    LET latent_image == batch.latent_image
        scaled_latent_image == TimesScaling(latent_image)
        has_cond == args.model_type.has_conditioning_image_input
        latent_conditioning_image ==
            IF has_cond THEN batch.latent_conditioning_image ELSE Unbound
        scaled_latent_conditioning_image ==
            IF has_cond THEN TimesScaling(latent_conditioning_image) ELSE Unbound
        drawn == LatentNoise(args, scaled_latent_image.shape, step)
        latent_noise == drawn.latent_noise
        high == TimestepHigh(num_train_timesteps, args)
        ints == RandInt(rng, high, scaled_latent_image.shape[1])
        timestep == ints.values
        noise_events == <<"generator.manual_seed">>
                          \o [i \in 1..drawn.draws |-> "generator.randn"]
    IN  IF ints.error # None
        THEN [error |-> ints.error,
              ret |-> NoReturn,
              latent_noise |-> latent_noise,
              timestep |-> timestep,
              high |-> high,
              latent_input |-> Unbound,
              generator_draws |-> drawn.draws,
              rng_after |-> ints.rng,
              events |-> noise_events,
              invoked |-> <<>>,
              saved |-> <<>>]
        ELSE
    LET scaled_noisy_latent_image ==
            AddNoise(scaled_latent_image, latent_noise, timestep)
        text_encoder_output ==
            [shape |-> <<>>, val |-> [op |-> "text_encoder", a |-> batch.tokens.val]]
        latent_input == LatentInput(args, scaled_noisy_latent_image, batch,
                                    scaled_latent_conditioning_image)
        predicted_latent_noise ==
            IF args.model_type.has_depth_input
            THEN Unet(latent_input, timestep, text_encoder_output,
                      batch.latent_depth, scaled_latent_image.shape)
            ELSE Unet(latent_input, timestep, text_encoder_output, Unbound,
                      scaled_latent_image.shape)
        env == [latent_image |-> latent_image,
                latent_conditioning_image |-> latent_conditioning_image,
                latent_noise |-> latent_noise,
                timestep |-> timestep,
                scaled_noisy_latent_image |-> scaled_noisy_latent_image,
                predicted_latent_noise |-> predicted_latent_noise,
                noise |-> Unbound,
                predicted_noise |-> Unbound,
                noisy_latent_image |-> Unbound,
                noisy_image |-> Unbound,
                scaled_predicted_latent_image |-> Unbound,
                predicted_latent_image |-> Unbound,
                predicted_image |-> Unbound,
                image |-> Unbound,
                conditioning_image |-> Unbound,
                saved |-> <<>>,
                decodes |-> 0]
        final == IF args.debug_mode THEN DebugBlock(env, args, step) ELSE env
        main_events == noise_events
                          \o <<"global.randint", "noise_scheduler.add_noise",
                               "text_encoder", "unet">>
        main_invoked == <<[net |-> "text_encoder", device |-> dev["text_encoder"]],
                          [net |-> "unet", device |-> dev["unet"]]>>
    IN  [error |-> None,
         ret |-> <<final.predicted_latent_noise, final.latent_noise>>,
         latent_noise |-> latent_noise,
         timestep |-> timestep,
         high |-> high,
         latent_input |-> latent_input,
         generator_draws |-> drawn.draws,
         rng_after |-> ints.rng,
         events |-> main_events \o [i \in 1..final.decodes |-> "vae.decode"],
         invoked |-> main_invoked
                        \o [i \in 1..final.decodes |->
                               [net |-> "vae", device |-> dev["vae"]]],
         saved |-> final.saved]

\* A call of predict by the trainer: args.debug_mode is the caller's choice.
\* The call leaves the global generator advanced by what it drew.
PredictCall ==
    /\ \E debug_mode \in BOOLEAN :
          LET out == Predict(cfg.num_train_timesteps, BatchOf(cfg),
                             ArgsOf(cfg, debug_mode), global_step, rng_state,
                             device)
          IN  /\ cur' = [called |-> TRUE,
                         debug_mode |-> debug_mode,
                         global_step |-> global_step,
                         rng_before |-> rng_state,
                         devices |-> device,
                         last_placement |-> last_placement,
                         out |-> out]
              /\ rng_state' = out.rng_after
    /\ UNCHANGED <<setup_debug_mode, device, net_mode, grad_ckpt, xformers,
                   last_placement, global_step, cfg>>
    /\ UNCHANGED <<trainVars, dataVars, modelVars, samplerVars>>

\* Training steps on a model whose setup object was built without debug
\* mode: predict calls, other draws from the global generator, step counts.
InitPredict ==
    /\ InitSetupObject(PredictConfigs, {FALSE}, 0..(RngMod - 1))
    /\ TrainIdle
    /\ DataIdle
    /\ ModelIdle
    /\ SamplerIdle

NextPredict ==
    \/ PredictCall
    \/ OtherRandomDraw
    \/ NextStep

SpecPredict == InitPredict /\ [][NextPredict]_vars

\* Placement calls and predict calls on a model, for either debug mode of
\* the setup object.
InitPlacement ==
    /\ InitSetupObject(PlacementConfigs, BOOLEAN, {0})
    /\ TrainIdle
    /\ DataIdle
    /\ ModelIdle
    /\ SamplerIdle

NextPlacement ==
    \/ SetupTrainDevice
    \/ SetupEvalDevice
    \/ PredictCall

SpecPlacement == InitPlacement /\ [][NextPlacement]_vars

-----------------------------------------------------------------------------
(***************************************************************************)
(* modules/modelSetup/StableDiffusionFineTuneSetup.py, setup_model, on a   *)
(* modules/model/StableDiffusionModel.py                                   *)
(*                                                                         *)
(* The model is a record of the fields setup_model touches.  A network is  *)
(* a record of the requires_grad flag of its parameters; an optimizer is a *)
(* record of the networks whose parameters it was created over and of the  *)
(* state it holds, and model.optimizer is None or a reference to the       *)
(* optimizer created last.  args is the one TrainArgs object of the run    *)
(* (scripts/train.py parses it once).                                      *)
(***************************************************************************)

MaxEpoch == 3
MaxTextEncoderEpochs == 2
MaxSetupCalls == 3

SetupArgs ==
    [train_text_encoder : BOOLEAN,
     train_text_encoder_epochs : 0..MaxTextEncoderEpochs]

\* The optimizer_state_dict argument of StableDiffusionModel.__init__.
StateDicts == {None, "state_dict"}

\* An instance attribute after `del`: the class only annotates it, so reading
\* it raises AttributeError.
Deleted == "deleted"

\* StableDiffusionModel.__init__: optimizer is None, the state dict and the
\* train progress are the arguments; the parameters of a loaded network
\* require gradients.
StableDiffusionModel(optimizer_state_dict, train_progress) ==
    [text_encoder |-> [requires_grad |-> TRUE],
     vae |-> [requires_grad |-> TRUE],
     unet |-> [requires_grad |-> TRUE],
     optimizer |-> None,
     optimizer_state_dict |-> optimizer_state_dict,
     train_progress |-> train_progress]

\* create_parameters(model, args): the parameter list, by network
create_parameters(m, args) ==
    IF args.train_text_encoder
    THEN <<"text_encoder">> \o <<"unet">>
    ELSE <<"unet">>

\* create.create_optimizer(parameters, args)
create_optimizer(parameters, args) ==
    [parameters |-> parameters, state |-> "fresh"]

\* optimizer.load_state_dict(state_dict)
load_state_dict(optimizer, state_dict) ==
    [optimizer EXCEPT !.state = state_dict]

\* train_text_encoder without the epoch limit (a faulty variant).
TrainTextEncoderIgnoringEpochs(m, args) ==
    args.train_text_encoder

\* setup_model, line 44: the local train_text_encoder
TrainTextEncoder(m, args) ==
    args.train_text_encoder
        /\ (m.train_progress.epoch < args.train_text_encoder_epochs)

\* A reference to an optimizer object, as model.optimizer holds it.
OptimizerRef == "Optimizer"

\* setup_model(model, args): the model it leaves, the exception it raises (or
\* None), the optimizers it created and the number of state dicts it loaded.
setup_model(m, args) ==
    LET train_text_encoder == TrainTextEncoder(m, args)
        flagged == [m EXCEPT !.text_encoder.requires_grad = train_text_encoder,
                             !.vae.requires_grad = FALSE,
                             !.unet.requires_grad = TRUE]
    IN  IF flagged.optimizer_state_dict = Deleted
        THEN [model |-> flagged, error |-> "AttributeError",
              created |-> <<>>, loaded |-> 0]
        ELSE IF flagged.optimizer_state_dict # None /\ flagged.optimizer = None
        THEN LET optimizer ==
                     create_optimizer(create_parameters(flagged, args), args)
                 loaded == load_state_dict(optimizer,
                                           flagged.optimizer_state_dict)
             IN  [model |-> [flagged EXCEPT !.optimizer = OptimizerRef,
                                            !.optimizer_state_dict = Deleted],
                  error |-> None, created |-> <<loaded>>, loaded |-> 1]
        ELSE IF flagged.optimizer_state_dict = None /\ flagged.optimizer = None
        THEN LET optimizer ==
                     create_optimizer(create_parameters(flagged, args), args)
             IN  [model |-> [flagged EXCEPT !.optimizer = OptimizerRef],
                  error |-> None, created |-> <<optimizer>>, loaded |-> 0]
        ELSE [model |-> flagged, error |-> None, created |-> <<>>,
              loaded |-> 0]

\* A model has been constructed, fresh or restored from a backup, and
\* setup_model has not been called on it yet.
InitSetupModel ==
    /\ \E sd \in StateDicts, e \in 0..MaxEpoch :
          model = StableDiffusionModel(sd, [epoch |-> e])
    /\ setup_args \in SetupArgs
    /\ setup_hist = [calls |-> 0, epoch |-> 0, error |-> None,
                     created |-> <<>>, loaded |-> 0]
    /\ TrainIdle
    /\ DataIdle
    /\ SetupIdle
    /\ SamplerIdle

\* The trainer calls model_setup.setup_model(model, args); an exception
\* leaves the trainer.
SetupModel ==
    /\ setup_hist.error = None
    /\ setup_hist.calls < MaxSetupCalls
    /\ LET r == setup_model(model, setup_args)
       IN  /\ model' = r.model
           /\ setup_hist' = [calls |-> setup_hist.calls + 1,
                             epoch |-> model.train_progress.epoch,
                             error |-> r.error,
                             created |-> setup_hist.created \o r.created,
                             loaded |-> setup_hist.loaded + r.loaded]
    /\ UNCHANGED setup_args
    /\ UNCHANGED <<trainVars, dataVars, setupVars, samplerVars>>

\* The training loop finishes an epoch: train_progress.epoch grows by one.
NextEpoch ==
    /\ setup_hist.error = None
    /\ model.train_progress.epoch < MaxEpoch
    /\ model' = [model EXCEPT !.train_progress.epoch = @ + 1]
    /\ UNCHANGED <<setup_args, setup_hist>>
    /\ UNCHANGED <<trainVars, dataVars, setupVars, samplerVars>>

NextSetupModel ==
    \/ SetupModel
    \/ NextEpoch

SpecSetupModel == InitSetupModel /\ [][NextSetupModel]_vars

-----------------------------------------------------------------------------
(***************************************************************************)
(* modules/modelSampler/SanaSampler.py, sample and __sample_base           *)
(*                                                                         *)
(* One sample call, a source line or block at a time.  The state is the    *)
(* device of each network of the SanaModel, the locals timesteps and i,    *)
(* and what the run has done so far: the network invocations (with the     *)
(* device the network was on), the on_update_progress calls, the image     *)
(* written and the on_sample calls.  A network invocation and image.save   *)
(* either succeed or raise; nothing in sample catches the exception.       *)
(***************************************************************************)

MaxDiffusionSteps == 3

SampleNetworks == {"text_encoder", "transformer", "vae"}

\* noise_scheduler.config.num_train_timesteps, as the model was loaded with
SchedulerTrainTimesteps == {4, 1000}

\* The fields of sample_config that the control flow reads, the scheduler's
\* num_train_timesteps and the devices the networks are on at the call.
SampleConfigs ==
    [diffusion_steps : 1..MaxDiffusionSteps,
     force_last_timestep : BOOLEAN,
     num_train_timesteps : SchedulerTrainTimesteps,
     initial_device : [SampleNetworks -> {"train", "temp"}]]

\* model.text_encoder_to / transformer_to / vae_to that ignores a move to
\* the temp device (a faulty variant).
MoveToKeepingTrain(devices, net, dev) ==
    IF dev = "train" THEN [devices EXCEPT ![net] = dev] ELSE devices

\* self.model.text_encoder_to(device), transformer_to(device), vae_to(device)
MoveTo(devices, net, dev) ==
    [devices EXCEPT ![net] = dev]

\* noise_scheduler.set_timesteps(diffusion_steps): diffusion_steps timesteps
\* of 0..num_train_timesteps-1, evenly spaced, in descending order.
set_timesteps(diffusion_steps, num_train_timesteps) ==
    [i \in 1..diffusion_steps |->
        (diffusion_steps - i) * (num_train_timesteps \div diffusion_steps)]

\* __sample_base, lines 87-95, without the forced last timestep (a faulty
\* variant).
TimestepsNotForced(config) ==
    set_timesteps(config.diffusion_steps, config.num_train_timesteps)

\* __sample_base, lines 87-95: the scheduler's timesteps, with the timestep
\* num_train_timesteps - 1 concatenated in front if force_last_timestep.
Timesteps(config) ==
    LET scheduled == set_timesteps(config.diffusion_steps,
                                   config.num_train_timesteps)
        last_timestep == <<config.num_train_timesteps - 1>>
    IN  IF config.force_last_timestep
        THEN last_timestep \o scheduled
        ELSE scheduled

\* sample(sample_config, destination, ...) has been called.
InitSampler ==
    /\ sample_pc = "L64"
    /\ sample_config \in SampleConfigs
    /\ sample_device = sample_config.initial_device
    /\ sample_timesteps = <<>>
    /\ loop_i = 0
    /\ sample_invoked = <<>>
    /\ progress = <<>>
    /\ image_saved = FALSE
    /\ on_sample_calls = 0
    /\ TrainIdle
    /\ DataIdle
    /\ SetupIdle
    /\ ModelIdle

\* A line that moves a network to a device.
Move(line, next, net, dev) ==
    /\ sample_pc = line
    /\ sample_device' = MoveTo(sample_device, net, dev)
    /\ sample_pc' = next
    /\ UNCHANGED <<sample_config, sample_timesteps, loop_i, sample_invoked,
                   progress, image_saved, on_sample_calls>>
    /\ UNCHANGED <<trainVars, dataVars, setupVars, modelVars>>

\* A line that runs a network on an argument: it returns or raises.
Invoke(line, next, net, arg) ==
    /\ sample_pc = line
    /\ sample_invoked' =
          Append(sample_invoked,
                 [net |-> net, device |-> sample_device[net], arg |-> arg])
    /\ \E raises \in BOOLEAN : sample_pc' = IF raises THEN "raised" ELSE next
    /\ UNCHANGED <<sample_config, sample_device, sample_timesteps, loop_i,
                   progress, image_saved, on_sample_calls>>
    /\ UNCHANGED <<trainVars, dataVars, setupVars, modelVars>>

\* line 64
TextEncoderToTrain == Move("L64", "L66", "text_encoder", "train")

\* lines 66-71
EncodePrompt == Invoke("L66", "L73", "text_encoder", "prompt")

\* lines 73-78
EncodeNegativePrompt == Invoke("L73", "L83", "text_encoder", "negative_prompt")

\* lines 83-84
TextEncoderToTemp == Move("L83", "L87", "text_encoder", "temp")

\* lines 87-109: timesteps, latent image, extra_step_kwargs
PrepareTimesteps ==
    /\ sample_pc = "L87"
    /\ sample_timesteps' = Timesteps(sample_config)
    /\ sample_pc' = "L112"
    /\ UNCHANGED <<sample_config, sample_device, loop_i, sample_invoked,
                   progress, image_saved, on_sample_calls>>
    /\ UNCHANGED <<trainVars, dataVars, setupVars, modelVars>>

\* line 112
TransformerToTrain == Move("L112", "L113", "transformer", "train")

\* line 113: for i, timestep in enumerate(timesteps)
DenoisingLoop ==
    /\ sample_pc = "L113"
    /\ sample_pc' = IF loop_i < Len(sample_timesteps) THEN "L117" ELSE "L146"
    /\ UNCHANGED <<sample_config, sample_device, sample_timesteps, loop_i,
                   sample_invoked, progress, image_saved, on_sample_calls>>
    /\ UNCHANGED <<trainVars, dataVars, setupVars, modelVars>>

\* lines 114-142: the transformer on the timestep, cfg, scheduler step
CallTransformer ==
    Invoke("L117", "L144", "transformer", sample_timesteps[loop_i + 1])

\* line 144: on_update_progress(i + 1, len(timesteps)), then the next i
UpdateProgress ==
    /\ sample_pc = "L144"
    /\ progress' = Append(progress, <<loop_i + 1, Len(sample_timesteps)>>)
    /\ loop_i' = loop_i + 1
    /\ sample_pc' = "L113"
    /\ UNCHANGED <<sample_config, sample_device, sample_timesteps,
                   sample_invoked, image_saved, on_sample_calls>>
    /\ UNCHANGED <<trainVars, dataVars, setupVars, modelVars>>

\* lines 146-147
TransformerToTemp == Move("L146", "L150", "transformer", "temp")

\* line 150
VaeToTrain == Move("L150", "L153", "vae", "train")

\* lines 152-156
VaeDecode == Invoke("L153", "L158", "vae", "latent_image")

\* lines 158-160: the VAE goes back and __sample_base returns the image
VaeToTemp == Move("L158", "L189", "vae", "temp")

\* lines 189-190: os.makedirs and image.save(destination); it may raise
ImageSave ==
    /\ sample_pc = "L189"
    /\ \E raises \in BOOLEAN :
          IF raises
          THEN sample_pc' = "raised" /\ UNCHANGED image_saved
          ELSE sample_pc' = "L192" /\ image_saved' = TRUE
    /\ UNCHANGED <<sample_config, sample_device, sample_timesteps, loop_i,
                   sample_invoked, progress, on_sample_calls>>
    /\ UNCHANGED <<trainVars, dataVars, setupVars, modelVars>>

\* line 192: on_sample(image)
OnSample ==
    /\ sample_pc = "L192"
    /\ on_sample_calls' = on_sample_calls + 1
    /\ sample_pc' = "done"
    /\ UNCHANGED <<sample_config, sample_device, sample_timesteps, loop_i,
                   sample_invoked, progress, image_saved>>
    /\ UNCHANGED <<trainVars, dataVars, setupVars, modelVars>>

NextSampler ==
    \/ TextEncoderToTrain
    \/ EncodePrompt
    \/ EncodeNegativePrompt
    \/ TextEncoderToTemp
    \/ PrepareTimesteps
    \/ TransformerToTrain
    \/ DenoisingLoop
    \/ CallTransformer
    \/ UpdateProgress
    \/ TransformerToTemp
    \/ VaeToTrain
    \/ VaeDecode
    \/ VaeToTemp
    \/ ImageSave
    \/ OnSample

SpecSampler == InitSampler /\ [][NextSampler]_vars

-----------------------------------------------------------------------------
(***************************************************************************)
(* Properties of scripts/train.py                                          *)
(***************************************************************************)

MainFinished == main_pc \in {"done", "raised"}

\* C1: when trainer.train() is interrupted by KeyboardInterrupt, main goes on
\* to the end-of-run save: with args.backup_before_save set the finished run
\* has called trainer.end() exactly once, and only the opt-out value
\* (backup_before_save = False) leaves the interrupted run without an end()
\* call.  args.backup_before_save is the only field the decision reads.
C1_InterruptedRunEnds ==
    (MainFinished /\ train_outcome = "KeyboardInterrupt") =>
        /\ canceled
        /\ main_args.backup_before_save => CallCount("end") = 1
        /\ ~main_args.backup_before_save => CallCount("end") = 0
        /\ CallCount("end") <= 1

\* An interrupted run with backup_before_save set that has finished after
\* its one end() call.
C1_Witness ==
    /\ main_pc = "done"
    /\ train_outcome = "KeyboardInterrupt"
    /\ canceled
    /\ main_args.backup_before_save
    /\ trainer_calls = <<"start", "train", "end">>

\* C9: an exception of trainer.train() other than KeyboardInterrupt leaves
\* main (it is the exception main ends with) and trainer.end() is not called
\* for it, whatever args.backup_before_save is; main calls start() before
\* train(), and end() at most once and only after train() has returned or
\* been interrupted.
C9_OnlyInterruptionAbsorbed ==
    /\ train_outcome \in Exceptions \ {"KeyboardInterrupt"} =>
          /\ main_pc = "raised"
          /\ main_exc = train_outcome
          /\ ~canceled
          /\ CallCount("end") = 0
    /\ trainer_calls \in {<<>>, <<"start">>, <<"start", "train">>,
                          <<"start", "train", "end">>}
    /\ CallCount("end") > 0 => train_outcome \in {"return", "KeyboardInterrupt"}

\* trainer.train() ran out of memory with backup_before_save set: main has
\* ended with that exception, without calling end().
C9_Witness ==
    /\ main_pc = "raised"
    /\ train_outcome = "OutOfMemoryError"
    /\ main_exc = "OutOfMemoryError"
    /\ main_args.backup_before_save
    /\ trainer_calls = <<"start", "train">>

-----------------------------------------------------------------------------
(***************************************************************************)
(* Properties of the data loader's stage list                              *)
(***************************************************************************)

\* The fields written by the modules before position i of a module list.
WrittenBefore(modules, i) == UNION {modules[j].writes : j \in 1..(i - 1)}

\* Every field a module reads is concept metadata or written earlier.
AllInputsProduced(modules) ==
    \A i \in 1..Len(modules) :
        modules[i].reads \subseteq (ConceptMetadata \cup WrittenBefore(modules, i))

\* The positions of the modules of the given MGDS classes in a module list.
Positions(modules, types) == {i \in 1..Len(modules) : modules[i].type \in types}

\* The stages of a definition that hold a module of the given MGDS classes.
Stages(definition, types) ==
    {i \in 1..Len(definition) :
        /\ definition[i] # None
        /\ \E k \in 1..Len(definition[i]) : definition[i][k].type \in types}

\* Every stage of `before` precedes every stage of `after`.
Precede(before, after) == \A i \in before, j \in after : i < j

\* C2: in the flattened stage list that create_dataset passes to MGDS, every
\* field name a module reads is written by a module earlier in the list or is
\* concept metadata (concept, path, name), for every flag combination.
C2_InputsProducedEarlier ==
    dl_pc = "done" => AllInputsProduced(ds.modules)

\* The field set a pipeline hands to the batch consumer: the names of its
\* OutputPipelineModule.
OutputSchema(modules) ==
    UNION {Range(modules[i].names) : i \in Positions(modules, {"OutputPipelineModule"})}

ExpectedSchema(args) ==
    {"image", "latent_image", "image_path"}
        \cup (IF args.masked_training THEN {"latent_mask"} ELSE {})

\* C6: for every flag configuration the pipeline has one output module, the
\* field set it exposes is {image, latent_image, image_path} without masked
\* training and {image, latent_image, image_path, latent_mask} with it, and
\* the batch sorter regroups exactly the same fields.
C6_OutputSchemaExact ==
    dl_pc = "done" =>
        /\ Cardinality(Positions(ds.modules, {"OutputPipelineModule"})) = 1
        /\ OutputSchema(ds.modules) = ExpectedSchema(dl_args)
        /\ Cardinality(Positions(ds.modules, {"AspectBatchSorting"})) = 1
        /\ \A i \in Positions(ds.modules, {"AspectBatchSorting"}) :
              Range(ds.modules[i].names) = ExpectedSchema(dl_args)

\* A finished pipeline with debug modules and without masked training: the
\* debug modules write decoded_image, the schema has the three fields.
C6_Witness ==
    /\ dl_pc = "done"
    /\ dl_args.debug_mode
    /\ ~dl_args.masked_training
    /\ Positions(ds.modules, {"DecodeVAE"}) # {}
    /\ OutputSchema(ds.modules) = {"image", "latent_image", "image_path"}

AugmentationTypes == {"RandomMaskRotateCrop", "RandomFlip"}

GeometryTypes == {"CalcAspect", "AspectBucketing", "ScaleCropImage"}

\* C10 as stated: both augmentation modules, the mask-guided random
\* rotate+crop and the random flip, are in stages that precede the
\* aspect-bucketing stage and the scale/crop stage.
C10_AugmentationBeforeGeometry ==
    dl_pc = "done" =>
        Precede(Stages(ds.definition, AugmentationTypes),
                Stages(ds.definition, GeometryTypes))

\* C10 as the code has it: the mask-guided random rotate+crop (present iff
\* masked_training and random_rotate_and_crop) is in a stage that precedes the
\* aspect-bucketing and scale/crop stages; the random flip (always present)
\* is in a stage after both of them and before the stage that encodes.
C10_RotateCropBeforeFlipAfterGeometry ==
    dl_pc = "done" =>
        /\ Precede(Stages(ds.definition, {"RandomMaskRotateCrop"}),
                   Stages(ds.definition, GeometryTypes))
        /\ Precede(Stages(ds.definition, GeometryTypes),
                   Stages(ds.definition, {"RandomFlip"}))
        /\ Precede(Stages(ds.definition, {"RandomFlip"}),
                   Stages(ds.definition, {"EncodeVAE", "Downscale"}))
        /\ Stages(ds.definition, {"RandomFlip"}) # {}
        /\ Stages(ds.definition, {"ScaleCropImage"}) # {}
        /\ Stages(ds.definition, {"RandomMaskRotateCrop"}) # {}
              <=> (dl_args.masked_training /\ dl_args.random_rotate_and_crop)

\* A finished pipeline that holds both augmentation modules and both the
\* bucketing and the scale/crop stage.
C10_Witness ==
    /\ dl_pc = "done"
    /\ Stages(ds.definition, {"RandomMaskRotateCrop"}) # {}
    /\ Stages(ds.definition, {"RandomFlip"}) # {}
    /\ Stages(ds.definition, {"AspectBucketing"}) # {}
    /\ Stages(ds.definition, {"ScaleCropImage"}) # {}

-----------------------------------------------------------------------------
(***************************************************************************)
(* Properties of StableDiffusionFineTuneSetup                              *)
(***************************************************************************)

\* The last predict call returned (it did not raise).
Returned == cur.called /\ cur.out.error = None

\* C3: two invocations of predict with the same global_step, batch and args
\* draw the same latent noise and select the same timestep, whatever was
\* drawn from the process-global generator before or between them.
C3_NoiseAndTimestepReproducible ==
    [][(/\ Returned
        /\ cur'.called
        /\ cur'.out.error = None
        /\ cur'.global_step = cur.global_step
        /\ cur'.debug_mode = cur.debug_mode)
       => (/\ cur'.out.latent_noise = cur.out.latent_noise
           /\ cur'.out.timestep = cur.out.timestep)]_vars

\* The same predict call without debug mode: same configuration, batch,
\* global_step, generator state and devices.
PlainCall ==
    Predict(cfg.num_train_timesteps, BatchOf(cfg), ArgsOf(cfg, FALSE),
            cur.global_step, cur.rng_before, cur.devices)

\* C4: a predict call with args.debug_mode set returns the same
\* (predicted_noise, actual_noise) pair as the call without it, makes the
\* same draws from the seeded generator and from the global generator in the
\* same order and leaves the global generator in the same state; what the
\* debug block adds comes after the draws and the denoiser call and is
\* VAE decoding only.
C4_DebugModeTransparent ==
    (cur.called /\ cur.debug_mode) =>
        /\ cur.out.error = PlainCall.error
        /\ cur.out.ret = PlainCall.ret
        /\ cur.out.generator_draws = PlainCall.generator_draws
        /\ cur.out.rng_after = PlainCall.rng_after
        /\ Len(cur.out.events) >= Len(PlainCall.events)
        /\ SubSeq(cur.out.events, 1, Len(PlainCall.events)) = PlainCall.events
        /\ \A i \in (Len(PlainCall.events) + 1)..Len(cur.out.events) :
              cur.out.events[i] = "vae.decode"

\* A predict call in debug mode that returned after saving its images.
C4_Witness ==
    /\ Returned
    /\ cur.debug_mode
    /\ Len(cur.out.saved) >= 5
    /\ Len(cur.out.ret) = 2

\* C5: the tensor passed to the denoising network is the noisy latent, the
\* latent mask and the scaled conditioning latent concatenated on axis 1,
\* with latent + mask + conditioning channels, for a variant with mask and
\* conditioning inputs; for every other variant it is the noisy latent alone
\* with the latent channels.
C5_DenoiserInputChannels ==
    Returned =>
        LET batch == BatchOf(cfg)
            input == cur.out.latent_input
            latent_channels == batch.latent_image.shape[2]
            mask_channels == batch.latent_mask.shape[2]
            conditioning_channels == batch.latent_conditioning_image.shape[2]
        IN  IF /\ cfg.model_type.has_mask_input
               /\ cfg.model_type.has_conditioning_image_input
            THEN /\ input.shape[2] =
                        latent_channels + mask_channels + conditioning_channels
                 /\ input.val.op = "concat"
                 /\ Len(input.val.parts) = 3
                 /\ input.val.parts[1].op = "add_noise"
                 /\ input.val.parts[2] = batch.latent_mask.val
                 /\ input.val.parts[3] =
                        TimesScaling(batch.latent_conditioning_image).val
            ELSE /\ input.shape[2] = latent_channels
                 /\ input.val.op = "add_noise"

\* A predict call of a mask+conditioning variant that returned, with more
\* than one latent channel.
C5_Witness ==
    /\ Returned
    /\ cfg.model_type.has_mask_input
    /\ cfg.model_type.has_conditioning_image_input
    /\ cfg.latent_channels > 1
    /\ cur.out.latent_input.shape[2] = (2 * cfg.latent_channels) + 1

\* t < max_noising_strength * num_train_timesteps, in integers
BelowStrength(t) == t * StrengthDen < cfg.strength_num * cfg.num_train_timesteps

\* C7 as stated: for every num_train_timesteps >= 1 and every
\* max_noising_strength in [0, 1] the draw is well defined and predict
\* selects for each sample a timestep t with
\* 0 <= t < max_noising_strength * num_train_timesteps.
C7_TimestepAlwaysDrawn ==
    cur.called =>
        /\ cur.out.error = None
        /\ Len(cur.out.timestep) = cfg.batch_size
        /\ \A i \in 1..Len(cur.out.timestep) :
              0 <= cur.out.timestep[i] /\ BelowStrength(cur.out.timestep[i])

\* C7 as the code has it: when int(num_train_timesteps *
\* max_noising_strength) >= 1, predict selects for each sample a timestep t
\* with 0 <= t < int(num_train_timesteps * max_noising_strength), which is
\* below max_noising_strength * num_train_timesteps; when it is 0 the range
\* is empty and the call raises instead of drawing.
C7_TimestepInRangeWhenNonEmpty ==
    cur.called =>
        LET bound == (cfg.num_train_timesteps * cfg.strength_num) \div StrengthDen
        IN  /\ bound >= 1 =>
                  /\ cur.out.error = None
                  /\ Len(cur.out.timestep) = cfg.batch_size
                  /\ \A i \in 1..Len(cur.out.timestep) :
                        /\ 0 <= cur.out.timestep[i]
                        /\ cur.out.timestep[i] < bound
                        /\ BelowStrength(cur.out.timestep[i])
            /\ bound = 0 =>
                  /\ cur.out.error = "RuntimeError"
                  /\ cur.out.ret = NoReturn

\* A predict call that drew the largest timestep of a range of two.
C7_Witness ==
    /\ Returned
    /\ cfg.num_train_timesteps = 2
    /\ cfg.strength_num = StrengthDen
    /\ \E i \in 1..Len(cur.out.timestep) : cur.out.timestep[i] = 1

\* C8: in a predict call that follows setup_train_device with no other
\* placement call in between, every network the call invokes is on the
\* train device: the text encoder, the unet, and the VAE when the debug
\* block runs, for every combination of the setup object's debug_mode and
\* args.debug_mode.
C8_InvokedNetworksOnTrainDevice ==
    (cur.called /\ cur.last_placement = "setup_train_device") =>
        \A i \in 1..Len(cur.out.invoked) : cur.out.invoked[i].device = "train"

\* The file names of the images a predict call saved, in order.
SavedNames == [i \in 1..Len(cur.out.saved) |-> cur.out.saved[i].name]

\* The calls of model.vae.decode a predict call made.
VaeCalls == {i \in 1..Len(cur.out.invoked) : cur.out.invoked[i].net = "vae"}

\* C11 as stated: with args.debug_mode a predict call decodes and persists
\* exactly five tensors - raw noise, predicted noise, noisy image, predicted
\* image and conditioning image - for every model variant; without it none
\* (stated of the calls that return).
C11_ExactlyFiveWithConditioning ==
    Returned =>
        IF cur.debug_mode
        THEN /\ Len(cur.out.saved) = 5
             /\ Range(SavedNames) =
                    {"1-noise", "2-predicted_noise", "3-noisy_image",
                     "4-predicted_image", "6-conditioning_image"}
        ELSE cur.out.saved = <<>>

\* C11 as the code has it: with args.debug_mode a predict call that returns
\* decodes and persists five tensors for every model variant - raw noise,
\* predicted noise, noisy image, the predicted image reconstructed by the
\* DDPM inversion of noisy latent, predicted noise and timestep, and the
\* input image - and a sixth, the conditioning image, exactly for a variant
\* with a conditioning image input; each under the call's global_step, each
\* by one VAE decode.  Without debug_mode, or when the call raises, it
\* persists none.
C11_FiveImagesPlusConditioning ==
    cur.called =>
        LET saved == cur.out.saved
            has_cond == cfg.model_type.has_conditioning_image_input
        IN  /\ (~cur.debug_mode \/ cur.out.error # None) =>
                  (saved = <<>> /\ VaeCalls = {})
            /\ (cur.debug_mode /\ cur.out.error = None) =>
                  /\ SavedNames =
                        IF has_cond
                        THEN <<"1-noise", "2-predicted_noise", "3-noisy_image",
                               "4-predicted_image", "5-image",
                               "6-conditioning_image">>
                        ELSE <<"1-noise", "2-predicted_noise", "3-noisy_image",
                               "4-predicted_image", "5-image">>
                  /\ Cardinality(VaeCalls) = Len(saved)
                  /\ \A i \in 1..Len(saved) :
                        /\ saved[i].step = cur.global_step
                        /\ saved[i].image.op = "vae_decode_clamp"
                  /\ saved[1].image.a.a = cur.out.latent_noise.val
                  /\ saved[2].image.a.a = cur.out.ret[1].val
                  /\ saved[3].image.a.a.op = "add_noise"
                  /\ saved[4].image.a.a.op = "ddpm_inversion"
                  /\ saved[4].image.a.a.a = saved[3].image.a.a
                  /\ saved[4].image.a.a.b = cur.out.ret[1].val
                  /\ saved[4].image.a.a.t = cur.out.timestep
                  /\ saved[5].image.a = BatchOf(cfg).latent_image.val
                  /\ has_cond =>
                        saved[6].image.a =
                            BatchOf(cfg).latent_conditioning_image.val

\* A predict call in debug mode on a variant with a conditioning image
\* input: it saved six images, the last the conditioning image.
C11_Witness ==
    /\ Returned
    /\ cur.debug_mode
    /\ cfg.model_type.has_conditioning_image_input
    /\ Len(cur.out.saved) = 6
    /\ cur.out.saved[6].name = "6-conditioning_image"



\* The split fields __cache_modules hands to the DiskCache.
ExpectedSplitNames(args) ==
    {"image", "latent_image_distribution"}
        \cup (IF args.masked_training THEN {"latent_mask"} ELSE {})

\* C12: in every configuration the DiskCache stage and module precede the
\* SampleVAEDistribution module, the cached fields are the split fields image,
\* latent_image_distribution and (iff masked training) latent_mask and the
\* aggregate fields crop_resolution and image_path, none of them the sampled
\* field latent_image, and the pipeline has a DiskCache iff latent_caching.
C12_SamplingAfterCache ==
    dl_pc = "done" =>
        LET caches == Positions(ds.modules, {"DiskCache"})
            samples == Positions(ds.modules, {"SampleVAEDistribution"})
        IN  /\ Cardinality(samples) = 1
            /\ \A j \in samples : ds.modules[j].writes = {"latent_image"}
            /\ Precede(caches, samples)
            /\ Precede(Stages(ds.definition, {"DiskCache"}),
                       Stages(ds.definition, {"SampleVAEDistribution"}))
            /\ (caches # {}) <=> dl_args.latent_caching
            /\ Cardinality(caches) <= 1
            /\ \A i \in caches :
                  /\ Range(ds.modules[i].split_names) = ExpectedSplitNames(dl_args)
                  /\ Range(ds.modules[i].aggregate_names) =
                        {"crop_resolution", "image_path"}
                  /\ "latent_image" \notin
                        Range(ds.modules[i].split_names)
                            \cup Range(ds.modules[i].aggregate_names)

\* A finished pipeline with latent caching and masked training: a DiskCache
\* that caches latent_mask sits in front of the sampling module.
C12_Witness ==
    /\ dl_pc = "done"
    /\ dl_args.latent_caching
    /\ dl_args.masked_training
    /\ \E i \in Positions(ds.modules, {"DiskCache"}) :
          /\ "latent_mask" \in Range(ds.modules[i].split_names)
          /\ \E j \in Positions(ds.modules, {"SampleVAEDistribution"}) : i < j

-----------------------------------------------------------------------------
(***************************************************************************)
(* Properties of setup_model                                               *)
(***************************************************************************)

\* C13: setup_model can be called any number of times on one model, built
\* with a saved optimizer_state_dict or with None: no call raises, after the
\* first call model.optimizer is not None, the optimizer has been created
\* exactly once, and the saved state has been loaded at most once.
C13_RepeatedSetupSucceeds ==
    /\ setup_hist.error = None
    /\ setup_hist.loaded <= 1
    /\ setup_hist.calls >= 1 =>
          /\ model.optimizer # None
          /\ Len(setup_hist.created) = 1

\* The optimizer object model.optimizer refers to: the one created last.
TheOptimizer == setup_hist.created[Len(setup_hist.created)]

\* What holds of the flags when the last setup_model call has ended.
FlagsAfterSetup ==
    setup_hist.calls >= 1 =>
        /\ ~model.vae.requires_grad
        /\ model.unet.requires_grad
        /\ model.text_encoder.requires_grad <=>
              (setup_args.train_text_encoder
                  /\ setup_hist.epoch < setup_args.train_text_encoder_epochs)
        /\ model.text_encoder.requires_grad =>
              /\ "text_encoder" \in Range(create_parameters(model, setup_args))
              /\ model.optimizer # None =>
                    "text_encoder" \in Range(TheOptimizer.parameters)

\* A step never makes a text encoder trainable that a call has frozen.
StaysFrozen ==
    (setup_hist.calls >= 1 /\ ~model.text_encoder.requires_grad)
        => ~model'.text_encoder.requires_grad

\* C16: after every setup_model call the VAE is frozen, the unet is trainable
\* and the text encoder is trainable iff args.train_text_encoder is set and
\* the epoch of the call is below args.train_text_encoder_epochs; as the epoch
\* never decreases, a text encoder once frozen is never made trainable again;
\* and a trainable text encoder has its parameters in the list that
\* create_parameters hands to the optimizer.
C16_TrainableFlags == []FlagsAfterSetup /\ [][StaysFrozen]_vars

\* The text encoder was to be trained, the epoch limit has passed, and a
\* second or later call has frozen it; its parameters are in the optimizer.
C16_Witness ==
    /\ setup_hist.calls >= 2
    /\ setup_hist.error = None
    /\ setup_args.train_text_encoder
    /\ setup_hist.epoch >= setup_args.train_text_encoder_epochs
    /\ ~model.text_encoder.requires_grad
    /\ model.optimizer # None
    /\ "text_encoder" \in Range(TheOptimizer.parameters)

-----------------------------------------------------------------------------
(***************************************************************************)
(* Properties of SanaSampler.sample                                        *)
(***************************************************************************)

\* The networks on the train device.
OnTrainDevice == {n \in SampleNetworks : sample_device[n] = "train"}

\* The run started with all three networks on the temp device.
StartedOnTemp ==
    \A n \in SampleNetworks : sample_config.initial_device[n] = "temp"

\* __sample_base has returned its image.
SampleBaseReturned == sample_pc \in {"L189", "L192", "done"}

\* The place of a network in the order text encoder, transformer, VAE.
UseOrder(net) ==
    CASE net = "text_encoder" -> 1
      [] net = "transformer" -> 2
      [] net = "vae" -> 3

\* The networks the run has invoked, in order.
InvokedNets == [i \in 1..Len(sample_invoked) |-> sample_invoked[i].net]

\* C14: in a sampling run that starts with text encoder, transformer and VAE
\* on the temp device, at every point at most one of them is on the train
\* device, they are invoked in the order text encoder, transformer, VAE, each
\* is on the train device when it is invoked, and when __sample_base has
\* returned normally every one of them has been used and all three are back
\* on the temp device.
C14_OneNetworkOnTrainDevice ==
    (sample_pc # "idle" /\ StartedOnTemp) =>
        /\ Cardinality(OnTrainDevice) <= 1
        /\ \A i \in 1..Len(sample_invoked) :
              sample_invoked[i].device = "train"
        /\ \A i, j \in 1..Len(sample_invoked) :
              i < j => UseOrder(InvokedNets[i]) <= UseOrder(InvokedNets[j])
        /\ SampleBaseReturned =>
              /\ OnTrainDevice = {}
              /\ Range(InvokedNets) = SampleNetworks

\* A run that started on the temp device has finished: text encoder twice,
\* transformer at least once and the VAE have run.
C14_Witness ==
    /\ sample_pc = "done"
    /\ StartedOnTemp
    /\ Len(sample_invoked) >= 4
    /\ OnTrainDevice = {}

\* N of the claim: the number of denoising steps of the run.
ExpectedTotal(config) ==
    IF config.force_last_timestep
    THEN config.diffusion_steps + 1
    ELSE config.diffusion_steps

\* The transformer invocations of the run, in order.
DenoisingSteps ==
    SelectSeq(sample_invoked, LAMBDA call : call.net = "transformer")

\* C15: in a sample call whose scheduler yields diffusion_steps timesteps the
\* on_update_progress calls are (1, N), (2, N), ... in that order, one after
\* each denoising step, and exactly N of them when the call has returned,
\* with N = diffusion_steps + 1 if force_last_timestep (the first step is
\* then at timestep num_train_timesteps - 1) and N = diffusion_steps
\* otherwise; on_sample is called exactly once in a call that returns, after
\* the last progress call and after the image was saved.
C15_ProgressThenSample ==
    sample_pc # "idle" =>
        LET N == ExpectedTotal(sample_config)
        IN  /\ Len(progress) <= N
            /\ \A i \in 1..Len(progress) : progress[i] = <<i, N>>
            /\ Len(progress) <= Len(DenoisingSteps)
            /\ Len(DenoisingSteps) <= Len(progress) + 1
            /\ sample_pc \in {"L113", "L146"} =>
                  Len(DenoisingSteps) = Len(progress)
            /\ (sample_config.force_last_timestep /\ DenoisingSteps # <<>>) =>
                  DenoisingSteps[1].arg = sample_config.num_train_timesteps - 1
            /\ SampleBaseReturned => Len(progress) = N
            /\ image_saved => Len(progress) = N
            /\ on_sample_calls <= 1
            /\ on_sample_calls = 1 => (image_saved /\ Len(progress) = N)
            /\ sample_pc = "done" => (on_sample_calls = 1 /\ image_saved)

\* A call with a forced last timestep and at least two scheduled steps has
\* returned: diffusion_steps + 1 progress calls, then the one on_sample call.
C15_Witness ==
    /\ sample_pc = "done"
    /\ sample_config.force_last_timestep
    /\ sample_config.diffusion_steps >= 2
    /\ Len(progress) = sample_config.diffusion_steps + 1
    /\ progress[Len(progress)] = <<Len(progress), Len(progress)>>
    /\ on_sample_calls = 1

====
